---- MODULE Spec2Model ----
(***************************************************************************)
(* Model of src/common/clickhouse.py: the retrying HTTP query client       *)
(* (ClickhouseClient), the server config assembly (ClickhouseConfig.load)  *)
(* and the secret redaction of config dumps (_mask_secrets).               *)
(***************************************************************************)
EXTENDS Integers, Sequences, FiniteSets, TLC

VARIABLES
    ch_version,   \* ClickhouseClient._ch_version
    stack,        \* active query() invocations, innermost last, each waiting at its POST
    op,           \* the top-level call in progress (or the last one)
    postLog,      \* the POSTs of the current top-level call, in order
    result,       \* outcome of the top-level call
    calls,        \* number of top-level calls made on this client
    fs,           \* the config files on disk
    loaded,       \* what ClickhouseConfig.load() returned, once it has run
    doc,          \* a config view's _config
    dumped        \* what dump() returned, once it has run

clientVars == <<ch_version, stack, op, postLog, result, calls>>
configVars == <<fs, loaded>>
maskVars == <<doc, dumped>>
vars == <<ch_version, stack, op, postLog, result, calls, fs, loaded, doc, dumped>>

(***************************************************************************)
(* Python values.  Texts are sequences of tokens; " " and "\n" are the     *)
(* whitespace tokens.                                                      *)
(***************************************************************************)
PyNone == [type |-> "None"]
PyStr(s) == [type |-> "str", v |-> s]
PyJson(s) == [type |-> "json", v |-> s]

WS == {" ", "\n"}

RECURSIVE lstrip(_)
lstrip(s) == IF s # <<>> /\ Head(s) \in WS THEN lstrip(Tail(s)) ELSE s

RECURSIVE rstrip(_)
rstrip(s) == IF s # <<>> /\ s[Len(s)] \in WS THEN rstrip(SubSeq(s, 1, Len(s) - 1)) ELSE s

\* str.strip()
strip(s) == rstrip(lstrip(s))

RECURSIVE WsRunLen(_)
WsRunLen(s) == IF s # <<>> /\ Head(s) \in WS THEN 1 + WsRunLen(Tail(s)) ELSE 0

\* re.sub(r'\s*\n\s*', ' ', s): every maximal whitespace run that holds a
\* newline becomes one blank; every other token is copied.
RECURSIVE resub(_)
resub(s) ==
    IF s = <<>> THEN <<>>
    ELSE LET n == WsRunLen(s) IN
         IF n > 0 /\ \E i \in 1..n : s[i] = "\n"
         THEN <<" ">> \o resub(SubSeq(s, n + 1, Len(s)))
         ELSE <<Head(s)>> \o resub(Tail(s))

\* ClickhouseError.__init__
ClickhouseError(query, response) ==
    [type |-> "ClickhouseError", query |-> resub(strip(query)), response |-> response]

Response(status, text) == [status |-> status, text |-> text]

ConnectionError(n) == [type |-> "ConnectionError", id |-> n]

(***************************************************************************)
(* retry(): the tenacity policy of the query() decorator.                  *)
(***************************************************************************)
max_attempts == 5

retry_if_exception_type_any(exc) == TRUE

retry_if_exception_type(exc) == exc.type = "ConnectionError"

stop_after_attempt_late(attempt) == attempt >= max_attempts + 1

stop_after_attempt(attempt) == attempt >= max_attempts

\* reraise=True: the last exception of the last attempt goes to the caller
reraise(exc) == exc

(***************************************************************************)
(* Query templates.  src is the template's source text; a template with a  *)
(* gate is {% if version_ge(gate) %}then{% else %}else{% endif %}.         *)
(***************************************************************************)
NoGate == "none"

PlainTmpl == [src |-> <<" ", "a", " ", "\n", " ", "b", "\n">>, gate |-> NoGate,
              then |-> <<" ", "a", " ", "\n", " ", "b", "\n">>,
              else |-> <<" ", "a", " ", "\n", " ", "b", "\n">>]

GatedTmpl == [src |-> <<"{%if%}", "new", "{%else%}", "old", "{%endif%}">>, gate |-> "22.1",
              then |-> <<"new">>, else |-> <<"old">>]

VersionTmpl == [src |-> <<"SELECT version()">>, gate |-> NoGate,
                then |-> <<"SELECT version()">>, else |-> <<"SELECT version()">>]

Templates == {PlainTmpl, GatedTmpl}

Formats == {"none", "JSON"}

VersionNum(v) ==
    CASE v = "21.8" -> <<21, 8>>
      [] v = "22.1" -> <<22, 1>>
      [] v = "22.3" -> <<22, 3>>
      [] OTHER -> <<0, 0>>

\* dotted-numeric comparison of the server version against a wanted one
version_ge(version, wanted) ==
    LET a == VersionNum(version) b == VersionNum(wanted) IN
    a[1] > b[1] \/ (a[1] = b[1] /\ a[2] >= b[2])

\* bodies the server may answer with
VersionBodies == {<<"22.3", "\n">>, <<"21.8", "\n">>}
RowBodies == {<<"r", "\n">>}
ErrorBodies == {<<"Code: 62", "\n">>}

MaxCalls == 2


Pending == [kind |-> "pending"]
Returned(v) == [kind |-> "return", value |-> v]
Raised(e) == [kind |-> "raise", exc |-> e]

Conf(s, v, r) == [stack |-> s, ver |-> v, result |-> r]

\* the frame of self.query('SELECT version()')
VersionFrame ==
    [tmpl |-> VersionTmpl, args |-> FALSE, fmt |-> "none", dry_run |-> FALSE, attempt |-> 1]

NeedsFetch_always(ver) == TRUE

\* get_clickhouse_version(): the guard of the fetch
NeedsFetch(ver) == ver = PyNone

\* render_query(): the text a template renders to once the version is known
render_query(tmpl, ver) ==
    IF tmpl.gate = NoGate THEN tmpl.then
    ELSE IF version_ge(ver.v[1], tmpl.gate) THEN tmpl.then ELSE tmpl.else

\* query(): the text that is POSTed (lines 92-96)
QueryText(f, ver) ==
    LET q == IF f.args THEN render_query(f.tmpl, ver) ELSE f.tmpl.src IN
    IF f.fmt # "none" THEN q \o <<" ", "FORMAT", " ", f.fmt>> ELSE q

\* does rendering this frame's query call version_ge ?
CallsVersionGe(f) == f.args /\ f.tmpl.gate # NoGate

\* what the top-level caller gets when the outermost query() frame returns v
TopReturn(o, ver, v) ==
    CASE o.name = "query" -> Conf(<<>>, ver, Returned(v))
      [] o.name = "get_clickhouse_version" -> Conf(<<>>, v, Returned(v))
      [] o.name = "render_query" -> Conf(<<>>, v, Returned(PyStr(render_query(o.tmpl, v))))

\* query() lines 101-104 once the query text is rendered: dry_run returns
\* None to the caller, otherwise the frame waits at its POST
AfterRender(o, f, ver) ==
    IF f.dry_run THEN TopReturn(o, ver, PyNone)
    ELSE Conf(<<f>>, ver, Pending)

\* one attempt of the outermost query() frame f, from the top of the body
StartAttempt(o, f, ver) ==
    IF CallsVersionGe(f) /\ NeedsFetch(ver)
    THEN Conf(<<f, VersionFrame>>, ver, Pending)
    ELSE AfterRender(o, f, ver)

\* the frame below the returning one receives v
Return(o, below, ver, v) ==
    IF below = <<>> THEN TopReturn(o, ver, v)
    ELSE AfterRender(o, below[1], v)

\* tenacity around the outermost frame f whose attempt raised exc
RetryOuter(o, f, ver, exc) ==
    IF retry_if_exception_type(exc) /\ ~stop_after_attempt(f.attempt)
    THEN StartAttempt(o, [f EXCEPT !.attempt = @ + 1], ver)
    ELSE Conf(<<>>, ver, Raised(reraise(exc)))

\* tenacity around the innermost frame f (below: the frames under it)
Retrying(o, f, below, ver, exc) ==
    IF retry_if_exception_type(exc) /\ ~stop_after_attempt(f.attempt)
    THEN IF below = <<>> THEN StartAttempt(o, [f EXCEPT !.attempt = @ + 1], ver)
         ELSE Conf(below \o <<[f EXCEPT !.attempt = @ + 1]>>, ver, Pending)
    ELSE IF below = <<>> THEN Conf(<<>>, ver, Raised(reraise(exc)))
         ELSE RetryOuter(o, below[1], ver, reraise(exc))

Apply(c) ==
    /\ stack' = c.stack
    /\ ch_version' = c.ver
    /\ result' = c.result

Idle == stack = <<>> /\ calls < MaxCalls

\* client.query(tmpl, query_args, format, dry_run=...)
CallQuery ==
    \E tmpl \in Templates, args \in BOOLEAN, fmt \in Formats, dry \in BOOLEAN :
        LET f == [tmpl |-> tmpl, args |-> args, fmt |-> fmt, dry_run |-> dry, attempt |-> 1]
            o == [name |-> "query", tmpl |-> tmpl, args |-> args, fmt |-> fmt, dry_run |-> dry]
        IN /\ Idle
           /\ op' = o
           /\ postLog' = <<>>
           /\ calls' = calls + 1
           /\ Apply(StartAttempt(o, f, ch_version))
           /\ UNCHANGED <<configVars, maskVars>>

\* client.get_clickhouse_version()
CallGetVersion ==
    LET o == [name |-> "get_clickhouse_version"] IN
    /\ Idle
    /\ op' = o
    /\ postLog' = <<>>
    /\ calls' = calls + 1
    /\ Apply(IF NeedsFetch(ch_version) THEN Conf(<<VersionFrame>>, ch_version, Pending)
             ELSE Conf(<<>>, ch_version, Returned(ch_version)))
    /\ UNCHANGED <<configVars, maskVars>>

\* client.render_query(tmpl, **kwargs)
CallRenderQuery ==
    \E tmpl \in Templates :
        LET o == [name |-> "render_query", tmpl |-> tmpl] IN
        /\ Idle
        /\ op' = o
        /\ postLog' = <<>>
        /\ calls' = calls + 1
        /\ Apply(IF tmpl.gate # NoGate /\ NeedsFetch(ch_version)
                 THEN Conf(<<VersionFrame>>, ch_version, Pending)
                 ELSE Conf(<<>>, ch_version, Returned(PyStr(render_query(tmpl, ch_version)))))
        /\ UNCHANGED <<configVars, maskVars>>

Top == stack[Len(stack)]
Below == SubSeq(stack, 1, Len(stack) - 1)
IsVersionFrame(f) == f.tmpl = VersionTmpl
Bodies(f) == IF IsVersionFrame(f) THEN VersionBodies ELSE RowBodies

LogEntry(f, outcome, body) ==
    [q |-> QueryText(f, ch_version), outcome |-> outcome, body |-> body,
     fmt |-> f.fmt, version |-> IsVersionFrame(f), depth |-> Len(stack)]

\* lines 120-123: what query() returns for a 2xx response
ResponseValue(fmt, body) ==
    IF fmt \in {"JSON", "JSONCompact"} THEN PyJson(body) ELSE PyStr(strip(body))

\* session.post answers 2xx (lines 108-123)
PostOk ==
    /\ stack # <<>>
    /\ \E body \in Bodies(Top) :
          /\ Apply(Return(op, Below, ch_version, ResponseValue(Top.fmt, body)))
          /\ postLog' = Append(postLog, LogEntry(Top, "ok", body))
    /\ UNCHANGED <<op, calls, configVars, maskVars>>

\* session.post raises requests.exceptions.ConnectionError
PostConnectionError ==
    /\ stack # <<>>
    /\ Apply(Retrying(op, Top, Below, ch_version, ConnectionError(Len(postLog) + 1)))
    /\ postLog' = Append(postLog, LogEntry(Top, "conn", <<>>))
    /\ UNCHANGED <<op, calls, configVars, maskVars>>

\* session.post answers non-2xx: raise_for_status raises HTTPError (lines 118, 124-125)
PostHTTPError ==
    /\ stack # <<>>
    /\ \E body \in ErrorBodies :
          /\ Apply(Retrying(op, Top, Below, ch_version,
                            ClickhouseError(QueryText(Top, ch_version), Response(500, body))))
          /\ postLog' = Append(postLog, LogEntry(Top, "http", body))
    /\ UNCHANGED <<op, calls, configVars, maskVars>>

(***************************************************************************)
(* Config documents.  A document is the section under its root element: an *)
(* ordered mapping (a sequence of key/value entries with distinct keys).   *)
(* A value is a scalar or a mapping; incl is the mapping's '@incl'         *)
(* attribute and x stands for the rest of its contents.                    *)
(***************************************************************************)
NoMarker == "<none>"
NoLeaf == "<none>"

ScalarNode(x) == [kind |-> "scalar", incl |-> NoMarker, x |-> x]
DictNode(incl, x) == [kind |-> "dict", incl |-> incl, x |-> x]
Entry(k, v) == [key |-> k, val |-> v]

HasKey(d, k) == \E i \in 1..Len(d) : d[i].key = k
Get(d, k) == d[CHOOSE i \in 1..Len(d) : d[i].key = k].val
Set(d, k, v) ==
    IF HasKey(d, k)
    THEN [i \in 1..Len(d) |-> IF d[i].key = k THEN Entry(k, v) ELSE d[i]]
    ELSE Append(d, Entry(k, v))
Del(d, k) == SelectSeq(d, LAMBDA e : e.key # k)

\* deep_merge on two values under the same key
deep_merge_value(dst, src) ==
    IF dst.kind = "dict" /\ src.kind = "dict"
    THEN DictNode(IF src.incl # NoMarker THEN src.incl ELSE dst.incl,
                  IF src.x # NoLeaf THEN src.x ELSE dst.x)
    ELSE src

\* deep_merge(dst, src)
RECURSIVE deep_merge(_, _)
deep_merge(dst, src) ==
    IF src = <<>> THEN dst
    ELSE LET e == Head(src) IN
         deep_merge(IF HasKey(dst, e.key)
                    THEN Set(dst, e.key, deep_merge_value(Get(dst, e.key), e.val))
                    ELSE Append(dst, e),
                    Tail(src))

IncludeStep_keep_sibling(key, i, root, heap) ==
    LET config_section == heap[i]
        include == config_section.incl
    IN IF config_section.kind # "dict" THEN [root |-> root, heap |-> heap]
       ELSE IF include \in {NoMarker, ""} THEN [root |-> root, heap |-> heap]
       ELSE [root |-> IF include # key /\ HasKey(root, include)
                      THEN Set(root, key, Get(root, include))
                      ELSE root,
             heap |-> [heap EXCEPT ![i].incl = NoMarker]]

\* one iteration of the include loop, lines 231-243: the item is key and
\* the object heap[i]; root maps the keys of root_section to objects
IncludeStep(key, i, root, heap) ==
    LET config_section == heap[i]
        include == config_section.incl
    IN IF config_section.kind # "dict" THEN [root |-> root, heap |-> heap]
       ELSE IF include \in {NoMarker, ""} THEN [root |-> root, heap |-> heap]
       ELSE [root |-> IF include # key /\ HasKey(root, include)
                      THEN Del(Set(root, key, Get(root, include)), include)
                      ELSE root,
             heap |-> [heap EXCEPT ![i].incl = NoMarker]]

\* the include loop over snap = root_section.copy(), from item i on
RECURSIVE ProcessIncludes(_, _, _, _)
ProcessIncludes(snap, i, root, heap) ==
    IF i > Len(snap) THEN [root |-> root, heap |-> heap]
    ELSE LET r == IncludeStep(snap[i].key, i, root, heap)
         IN ProcessIncludes(snap, i + 1, r.root, r.heap)

\* lines 229-243 on the merged config
process_includes(config) ==
    LET r == ProcessIncludes(config, 1,
                             [i \in 1..Len(config) |-> Entry(config[i].key, i)],
                             [i \in 1..Len(config) |-> config[i].val])
    IN [i \in 1..Len(r.root) |-> Entry(r.root[i].key, r.heap[r.root[i].val])]

PREPROCESSED == "/var/lib/clickhouse/preprocessed_configs/config.xml"
MAIN == "/etc/clickhouse-server/config.xml"
CLUSTER == "/etc/clickhouse-server/cluster.xml"

\* lines 225-226: the override directory's files merged in listing order
RECURSIVE MergeListed(_, _, _)
MergeListed(config, listing, files) ==
    IF listing = <<>> THEN config
    ELSE MergeListed(deep_merge(config, files[Head(listing)]), Tail(listing), files)

\* lines 222-245: manual merge and processing
manual_load(f) ==
    LET merged == MergeListed(deep_merge(f.main, f.cluster), f.listing, f.files)
    IN [config |-> process_includes(merged), preprocessed |-> FALSE,
        reads |-> <<MAIN, CLUSTER>> \o f.listing, merged |-> merged]

load_includes_in_preprocessed(f) ==
    IF f.pre_exists
    THEN [config |-> process_includes(f.pre), preprocessed |-> TRUE,
          reads |-> <<PREPROCESSED>>, merged |-> f.pre]
    ELSE manual_load(f)

\* ClickhouseConfig.load() on the file system f
load(f) ==
    IF f.pre_exists
    THEN [config |-> f.pre, preprocessed |-> TRUE, reads |-> <<PREPROCESSED>>, merged |-> f.pre]
    ELSE manual_load(f)

(***************************************************************************)
(* The file systems load() is run on.                                      *)
(***************************************************************************)
SectionKeys == {"foo", "bar", "baz"}
MarkerValues == SectionKeys \cup {NoMarker, "", "qux"}
SectionValues(k) == {ScalarNode(k)} \cup {DictNode(m, k) : m \in MarkerValues}

RECURSIVE OrderedDicts(_)
OrderedDicts(keys) ==
    {<<>>} \cup UNION {
        {<<Entry(k, v)>> \o d : v \in SectionValues(k), d \in OrderedDicts(keys \ {k})}
        : k \in keys}

MainDocs == OrderedDicts(SectionKeys)
ClusterDocs == {<<>>, <<Entry("bar", DictNode(NoMarker, "cluster"))>>,
                <<Entry("leaf", ScalarNode("cluster"))>>}
PreDoc == <<Entry("foo", DictNode("bar", "pre-foo")), Entry("bar", DictNode("", "pre-bar"))>>

MaxConfigdFiles == 2
ConfigdNames == <<"a.xml", "b.xml", "c.xml", "d.xml">>
ConfigdFiles == {ConfigdNames[i] : i \in 1..MaxConfigdFiles}
ConfigdDoc(name) == <<Entry("leaf", ScalarNode(name))>>
NameIndex(name) == CHOOSE i \in 1..Len(ConfigdNames) : ConfigdNames[i] = name

\* what os.listdir may return: the files of the directory in any order
Listings ==
    {l \in UNION {[1..n -> ConfigdFiles] : n \in 0..MaxConfigdFiles} :
        \A i, j \in 1..Len(l) : i # j => l[i] # l[j]}

FileSystems ==
    {[pre_exists |-> pe, pre |-> IF pe THEN PreDoc ELSE <<>>, main |-> m, cluster |-> c,
      listing |-> l, files |-> [n \in ConfigdFiles |-> ConfigdDoc(n)]]
     : pe \in BOOLEAN, m \in MainDocs, c \in ClusterDocs, l \in Listings}


NotLoaded == [preprocessed |-> FALSE, config |-> <<>>, reads |-> <<>>, merged |-> <<>>]

\* ClickhouseConfig.load()
Load ==
    /\ loaded = NotLoaded
    /\ loaded' = load(fs)
    /\ UNCHANGED <<fs, clientVars, maskVars>>

(***************************************************************************)
(* Config dumps.  A node of a dumped tree is a string, a mapping (a        *)
(* function from its keys to nodes) or a list of nodes.                    *)
(***************************************************************************)
Str(v) == [t |-> "str", v |-> v]
Map(m) == [t |-> "map", m |-> m]
List(l) == [t |-> "list", l |-> l]

MaskedKeys == {"password", "secret_access_key", "header", "identity"}
MASK == "*****"

\* _mask_secrets(config); only a mapping is a MutableMapping
RECURSIVE mask_secrets(_)
mask_secrets(config) ==
    IF config.t = "map"
    THEN Map([key \in DOMAIN config.m |->
                LET value == config.m[key] IN
                IF value.t = "map" THEN mask_secrets(value)
                ELSE IF key \in MaskedKeys THEN Str(MASK)
                ELSE value])
    ELSE config

\* _dump_config(config, mask_secrets=...) with xml_format=False
dump_config(config, mask) ==
    LET copy == config IN
    IF mask THEN mask_secrets(copy) ELSE copy

MaxDepth == 3
MaxListLen == 2
DocKeys == {"password", "user"}

RECURSIVE Trees(_)
Trees(d) ==
    IF d = 0 THEN {Str("secret123")}
    ELSE LET sub == Trees(d - 1) IN
         sub \cup {Map(m) : m \in UNION {[ks -> sub] : ks \in (SUBSET DocKeys) \ {{}}}}
             \cup {List(l) : l \in UNION {[1..n -> sub] : n \in 1..MaxListLen}}

\* the documents a config view may hold: mappings
Documents ==
    {Map(m) : m \in UNION {[ks -> Trees(MaxDepth - 1)] : ks \in (SUBSET DocKeys) \ {{}}}}


NotDumped == [done |-> FALSE]

\* view.dump(mask_secrets=...)
Dump ==
    /\ dumped = NotDumped
    /\ \E mask \in BOOLEAN :
          dumped' = [done |-> TRUE, mask_secrets |-> mask, value |-> dump_config(doc, mask)]
    /\ UNCHANGED <<doc, clientVars, configVars>>


(***************************************************************************)
(* Specifications: a client and its calls; a file system and load(); a     *)
(* config view and dump().                                                 *)
(***************************************************************************)
InitClient ==
    /\ ch_version = PyNone
    /\ stack = <<>>
    /\ op = [name |-> "init"]
    /\ postLog = <<>>
    /\ result = Pending
    /\ calls = 0
    /\ fs = [pre_exists |-> FALSE]
    /\ loaded = NotLoaded
    /\ doc = Map(<<>>)
    /\ dumped = NotDumped

NextClient ==
    \/ CallQuery
    \/ CallGetVersion
    \/ CallRenderQuery
    \/ PostOk
    \/ PostConnectionError
    \/ PostHTTPError

SpecClient == InitClient /\ [][NextClient]_vars

InitConfig ==
    /\ fs \in FileSystems
    /\ loaded = NotLoaded
    /\ ch_version = PyNone
    /\ stack = <<>>
    /\ op = [name |-> "init"]
    /\ postLog = <<>>
    /\ result = Pending
    /\ calls = 0
    /\ doc = Map(<<>>)
    /\ dumped = NotDumped

NextConfig == Load

SpecConfig == InitConfig /\ [][NextConfig]_vars

InitMask ==
    /\ doc \in Documents
    /\ dumped = NotDumped
    /\ ch_version = PyNone
    /\ stack = <<>>
    /\ op = [name |-> "init"]
    /\ postLog = <<>>
    /\ result = Pending
    /\ calls = 0
    /\ fs = [pre_exists |-> FALSE]
    /\ loaded = NotLoaded

NextMask == Dump

SpecMask == InitMask /\ [][NextMask]_vars

(***************************************************************************)
(* Properties of the query client.                                         *)
(***************************************************************************)
Done == stack = <<>> /\ result # Pending

AllConn(log) == \A i \in 1..Len(log) : log[i].outcome = "conn"

FourFailuresThenSuccess(log) ==
    /\ Len(log) >= max_attempts
    /\ \A i \in 1..(max_attempts - 1) : log[i].outcome = "conn"
    /\ log[max_attempts].outcome = "ok"

\* the call renders without running the version query: every POST of the
\* call is a POST of the call's own query
NoVersionFetch == \A i \in 1..Len(postLog) : ~postLog[i].version

\* C1 as stated: for any call to query(), four connection errors and a
\* success on the 5th POST end the call with a result after exactly 5 POSTs;
\* connection errors on every POST end it after exactly 5 POSTs with the last
\* connection error raised unchanged.
C1_AnyCallFivePosts ==
    op.name = "query" =>
        /\ FourFailuresThenSuccess(postLog) =>
              /\ Done
              /\ Len(postLog) = max_attempts
              /\ result = Returned(ResponseValue(op.fmt, postLog[max_attempts].body))
        /\ (AllConn(postLog) /\ postLog # <<>>) =>
              IF Len(postLog) < max_attempts
              THEN ~Done
              ELSE /\ Done
                   /\ Len(postLog) = max_attempts
                   /\ result = Raised(ConnectionError(max_attempts))

\* C1 amended: the same for every call to query() that does not run the
\* version query while rendering (no query_args, a template without
\* version_ge, or the version already cached).
C1_WithoutVersionFetch ==
    (op.name = "query" /\ NoVersionFetch) => C1_AnyCallFivePosts

\* five connection errors in a row ended a call with the 5th error
C1_Witness ==
    /\ op.name = "query"
    /\ NoVersionFetch
    /\ Done
    /\ AllConn(postLog)
    /\ Len(postLog) = max_attempts
    /\ result = Raised(ConnectionError(max_attempts))

\* C2: a POST answered with a non-2xx status ends the call at once with a
\* ClickhouseError that carries the whitespace-collapsed text of the query
\* that was POSTed and the raw response; no POST follows it.
C2_HttpErrorNotRetried ==
    \A i \in 1..Len(postLog) :
        postLog[i].outcome = "http" =>
            /\ i = Len(postLog)
            /\ Done
            /\ result.kind = "raise"
            /\ result.exc.type = "ClickhouseError"
            /\ result.exc.response = Response(500, postLog[i].body)
            /\ result.exc.query = resub(strip(postLog[i].q))
            /\ \A k \in 1..Len(result.exc.query) : result.exc.query[k] # "\n"
            /\ result.exc.query # <<>> =>
                  /\ result.exc.query[1] \notin WS
                  /\ result.exc.query[Len(result.exc.query)] \notin WS

\* an HTTP error on the 3rd POST, after two connection errors
C2_Witness ==
    /\ Len(postLog) = 3
    /\ postLog[1].outcome = "conn"
    /\ postLog[2].outcome = "conn"
    /\ postLog[3].outcome = "http"
    /\ \E k \in 1..Len(postLog[3].q) : postLog[3].q[k] = "\n"
    /\ result.kind = "raise"

\* C3: a call to query() with dry_run=True issues no POST and returns None.
C3_DryRunNoPost ==
    (op.name = "query" /\ op.dry_run) =>
        /\ postLog = <<>>
        /\ Done => result = Returned(PyNone)

\* C4: once the version is cached it never changes and no further
\* 'SELECT version()' is POSTed on this client.
C4_VersionFetchedOnce ==
    [][ch_version # PyNone =>
          /\ ch_version' = ch_version
          /\ \A i \in 1..Len(postLog') :
                postLog'[i].version => (i <= Len(postLog) /\ postLog[i] = postLog'[i])
      ]_vars

\* a second call renders a version-gated template from the cached version
C4_Witness ==
    /\ calls = 2
    /\ ch_version # PyNone
    /\ op.name \in {"query", "render_query"}
    /\ op.tmpl = GatedTmpl
    /\ (op.name = "query" => op.args)
    /\ Done
    /\ result.kind = "return"
    /\ \A i \in 1..Len(postLog) : ~postLog[i].version

\* C10: for one top-level call to query(), when every POST fails with a
\* connection error, no more than 5 POSTs are issued in total.
C10_TotalPostsWithinCeiling ==
    (op.name = "query" /\ AllConn(postLog)) => Len(postLog) <= max_attempts

(***************************************************************************)
(* Properties of ClickhouseConfig.load().                                  *)
(***************************************************************************)
HasLoaded == loaded # NotLoaded
Manual == HasLoaded /\ ~fs.pre_exists

\* in the merged config, section foo is a container whose marker names bar
Includes(foo, bar) ==
    /\ HasKey(loaded.merged, foo)
    /\ Get(loaded.merged, foo).kind = "dict"
    /\ Get(loaded.merged, foo).incl = bar
    /\ bar # foo
    /\ HasKey(loaded.merged, bar)

\* a section's contents, the marker attribute aside
Content(v) == [v EXCEPT !.incl = NoMarker]

Substituted(foo, bar) ==
    /\ HasKey(loaded.config, foo)
    /\ Content(Get(loaded.config, foo)) = Content(Get(loaded.merged, bar))
    /\ ~HasKey(loaded.config, bar)
    /\ Get(loaded.config, foo).incl = NoMarker

\* C5 as stated: after a manual load, every section foo whose marker names a
\* present sibling bar holds bar's original contents, bar is gone and foo has
\* no marker, whatever the other sections are.
C5_IncludeAnyArrangement ==
    Manual => \A foo, bar \in SectionKeys : Includes(foo, bar) => Substituted(foo, bar)

\* no container section other than foo has a marker naming foo or bar
OnlyIncluder(foo, bar) ==
    \A k \in SectionKeys \ {foo} :
        (HasKey(loaded.merged, k) /\ Get(loaded.merged, k).kind = "dict")
            => Get(loaded.merged, k).incl \notin {foo, bar}

\* C5 amended: the same, provided bar carries no include marker itself and
\* no other section's marker names foo or bar.
C5_IncludeSingle ==
    Manual => \A foo, bar \in SectionKeys :
        (/\ Includes(foo, bar)
         /\ Get(loaded.merged, bar).incl = NoMarker
         /\ OnlyIncluder(foo, bar)) => Substituted(foo, bar)

C5_Witness ==
    /\ Manual
    /\ Includes("foo", "bar")
    /\ Get(loaded.merged, "bar").incl = NoMarker
    /\ OnlyIncluder("foo", "bar")
    /\ Get(loaded.merged, "bar") = DictNode(NoMarker, "cluster")
    /\ HasKey(loaded.merged, "baz")
    /\ Get(loaded.merged, "baz").incl = "qux"
    /\ Substituted("foo", "bar")

\* C6: after the include pass no container section under the root carries
\* the include marker.
C6_NoMarkerLeft ==
    Manual => \A i \in 1..Len(loaded.config) :
        loaded.config[i].val.kind = "dict" => loaded.config[i].val.incl = NoMarker

\* C7: a scalar leaf defined by two override-directory files has the value
\* of the file whose name sorts last.
C7_LastNameWins ==
    Manual => \A a, b \in ConfigdFiles :
        (/\ NameIndex(a) < NameIndex(b)
         /\ \E i \in 1..Len(fs.listing) : fs.listing[i] = a
         /\ \E i \in 1..Len(fs.listing) : fs.listing[i] = b
         /\ \A i \in 1..Len(fs.listing) : NameIndex(fs.listing[i]) <= NameIndex(b))
            => Get(loaded.merged, "leaf") = Get(fs.files[b], "leaf")

\* C9: with a preprocessed file, load() returns exactly its document with
\* preprocessed=True, reads no other file and resolves no include; without
\* one the view has preprocessed=False.
C9_PreprocessedOnly ==
    HasLoaded =>
        IF fs.pre_exists
        THEN /\ loaded.config = fs.pre
             /\ loaded.preprocessed
             /\ loaded.reads = <<PREPROCESSED>>
        ELSE /\ ~loaded.preprocessed
             /\ \A i \in 1..Len(loaded.reads) : loaded.reads[i] # PREPROCESSED

\* a preprocessed document with include markers was loaded as it is
C9_Witness ==
    /\ HasLoaded
    /\ fs.pre_exists
    /\ loaded.preprocessed
    /\ Get(loaded.config, "foo").incl = "bar"
    /\ HasKey(loaded.config, "bar")
    /\ fs.listing # <<>>

(***************************************************************************)
(* Properties of dump().                                                   *)
(***************************************************************************)
\* the tree with the value of every denylisted key, in every mapping at any
\* depth (inside lists too), replaced by the mask token
RECURSIVE Redacted(_)
Redacted(n) ==
    CASE n.t = "map" ->
            Map([k \in DOMAIN n.m |-> IF k \in MaskedKeys THEN Str(MASK) ELSE Redacted(n.m[k])])
      [] n.t = "list" -> List([i \in 1..Len(n.l) |-> Redacted(n.l[i])])
      [] OTHER -> n

\* C8: dump(mask_secrets=True) returns the tree in which every occurrence of
\* a denylisted key, at any depth and in any container, has the mask token
\* as its value whatever the value's type, everything else unchanged.
C8_EverySecretMasked ==
    (dumped.done /\ dumped.mask_secrets) => dumped.value = Redacted(doc)

====
